---- MODULE Spec2Model ----
(***************************************************************************)
(* The annotation-join engine of openomics/database/base.py:               *)
(* Database.get_annotations (the grouped, aggregated view of a store) and  *)
(* the Annotatable operations that own the Annotation Table.               *)
(*                                                                         *)
(* Representation.  A Python string is a sequence of one-character         *)
(* strings.  The two null objects of a DataFrame cell, None and NaN, are   *)
(* one-element sequences holding a reserved symbol that is no character,   *)
(* so that the literal string "None" (four characters) is distinct from    *)
(* the object None.  An integer label of a default RangeIndex is a         *)
(* one-element sequence holding the symbol "#i".                           *)
(* A DataFrame is a record [name, cols, rows]: the index name, the set of  *)
(* column names and the rows in order, each row [k, v] with its index      *)
(* label k and its cells v, a function from cols to values.                *)
(* Join keys are single column names; composite (list) keys are not        *)
(* modelled.                                                               *)
(***************************************************************************)
EXTENDS Integers, Sequences, FiniteSets, TLC

\* ------------------------------------------------------------- values
PyNone == <<"<None>">>
NaN == <<"<NaN>">>
IntLabel(i) == <<"#" \o ToString(i)>>

\* pandas isnull / notnull
IsNull(x) == x \in {PyNone, NaN}

\* a str instance (what '|'.join accepts, what difflib can compare)
IsStr(x) == \A i \in 1..Len(x) : x[i] \notin {"<None>", "<NaN>"} /\ Len(x[i]) = 1

\* The characters in use, in code point order.
Alphabet ==
  <<"0", "1", "2", "3", "N", "_", "a", "b", "c", "d", "e", "g", "i", "k", "l", "m", "n",
    "o", "s", "t", "v", "w", "x", "y", "z", "|">>

Ord(c) == CHOOSE i \in 1..Len(Alphabet) : Alphabet[i] = c

\* Python's < on str: lexicographic by code point.
RECURSIVE StrLess(_, _)
StrLess(a, b) ==
  IF b = <<>> THEN FALSE
  ELSE IF a = <<>> THEN TRUE
  ELSE IF a[1] = b[1] THEN StrLess(Tail(a), Tail(b))
  ELSE Ord(a[1]) < Ord(b[1])

Range(s) == {s[i] : i \in 1..Len(s)}

\* The strings of a finite set in ascending order.
RECURSIVE Sorted(_)
Sorted(S) ==
  IF S = {} THEN <<>>
  ELSE LET m == CHOOSE x \in S : \A y \in S \ {x} : StrLess(x, y)
       IN  <<m>> \o Sorted(S \ {m})

\* sep.join(parts)
RECURSIVE StrJoin(_, _)
StrJoin(sep, parts) ==
  IF parts = <<>> THEN <<>>
  ELSE IF Len(parts) = 1 THEN parts[1]
  ELSE parts[1] \o sep \o StrJoin(sep, Tail(parts))

\* s.split("|"): the parts of a pipe-delimited string.
RECURSIVE StrSplit(_)
StrSplit(s) ==
  IF \A i \in 1..Len(s) : s[i] # "|" THEN <<s>>
  ELSE LET p == CHOOSE i \in 1..Len(s) : s[i] = "|" /\ \A j \in 1..(i - 1) : s[j] # "|"
       IN  <<SubSeq(s, 1, p - 1)>> \o StrSplit(SubSeq(s, p + 1, Len(s)))

\* ------------------------------------------------------ names and data
ID == <<"i", "d">>
NM == <<"n", "m">>
C == <<"c">>
Z == <<"z">>
DISEASE_ASSOCIATIONS_COL ==
  <<"d", "i", "s", "e", "a", "s", "e", "_", "a", "s", "s", "o", "c", "i", "a", "t",
    "i", "o", "n", "s">>

G1 == <<"g", "1">>
G2 == <<"g", "2">>
G3 == <<"g", "3">>
G1A == <<"g", "1", "a">>
G1B == <<"g", "1", "b">>
NA == <<"n", "a">>
X == <<"x">>
Y == <<"y">>
VKeep == <<"k">>
VNew == <<"w">>
NoneStr == <<"N", "o", "n", "e">>

\* A function with an empty domain is the empty sequence; written as <<>> so
\* that equal tables have one representation.
Norm(f) == IF DOMAIN f = {} THEN <<>> ELSE f
Row(k, v) == [k |-> k, v |-> Norm(v)]
Frame(name, cols, rows) == [name |-> name, cols |-> cols, rows |-> Norm(rows)]
EmptyFrame == Frame(PyNone, {}, <<>>)

\* The label (or the column value) a row is grouped and joined by.
KeyOf(df, r, on) == IF on = df.name THEN r.k ELSE r.v[on]
HasKey(df, on) == on = df.name \/ on \in df.cols

\* df[cols]: the frame projected to the columns cols.
Project(df, cols) ==
  Frame(df.name, cols, [i \in 1..Len(df.rows) |->
                          Row(df.rows[i].k, [c \in cols |-> df.rows[i].v[c]])])

\* ------------------------------------------------------------- stores
\* A join source: a Database over a pandas or a dask DataFrame, or a bare
\* pandas DataFrame handed to annotate_attributes.
Source(kind, data) == [kind |-> kind, data |-> data]

\* pandas store keyed by id: gene g1 has the values x, y, x in column c and
\* the group [x, NaN, "None"] in column nm; gene g2 has one row.
DB1 ==
  Source("pandas", Frame(ID, {NM, C},
    << Row(G1, (NM :> X @@ C :> X)),
       Row(G1, (NM :> NaN @@ C :> Y)),
       Row(G1, (NM :> NoneStr @@ C :> X)),
       Row(G2, (NM :> NA @@ C :> PyNone)) >>))

\* dask store with the default index and id as a column, with other values
\* for column c and without g2.
DB2 ==
  Source("dask", Frame(PyNone, {ID, NM, C},
    << Row(IntLabel(0), (ID :> G1 @@ NM :> NaN @@ C :> VNew)),
       Row(IntLabel(1), (ID :> G1 @@ NM :> X @@ C :> NoneStr)) >>))

\* pandas store keyed by id in which the genes g2 and g3 have the same name.
DB4 ==
  Source("pandas", Frame(ID, {NM, C},
    << Row(G2, (NM :> X @@ C :> VKeep)),
       Row(G3, (NM :> X @@ C :> NaN)) >>))

\* a bare DataFrame whose labels are near misses of the gene id g1.
DF3 ==
  Source("frame", Frame(ID, {C},
    << Row(G1A, (C :> VKeep)),
       Row(G1B, (C :> VNew)) >>))

Sources == {DB1, DB2, DF3}
Databases == {s \in Sources : s.kind # "frame"}

\* ------------------------------------------------------- aggregation
\* openomics.utils.df.concat_uniques: the distinct values of a group without
\* the nulls and without the string "None", joined by "|".  The order of the
\* parts is implementation-defined; the model takes the ascending one.
concat_uniques(values) ==
  StrJoin(<<"|">>, Sorted({x \in Range(values) : ~IsNull(x) /\ x # NoneStr}))

\* The dask Aggregation collect_concat: chunk collects lists, agg chains them
\* into a set and filters out "None" and None, finalize joins with "|".
collect_concat_agg(values) == {x \in Range(values) : ~(x = NoneStr \/ x = PyNone)}
collect_concat_raises(values) == \E x \in collect_concat_agg(values) : ~IsStr(x)
collect_concat(values) == StrJoin(<<"|">>, Sorted(collect_concat_agg(values)))

\* pandas GroupBy.first: the first non-null value of the group, NaN if none.
first(values) ==
  LET nn == SelectSeq(values, LAMBDA x : ~IsNull(x))
  IN  IF nn = <<>> THEN NaN ELSE nn[1]

AggRaises(kind, agg, values) ==
  agg = "concat_uniques" /\ kind = "dask" /\ collect_concat_raises(values)

Aggregate(kind, agg, values) ==
  IF agg = "concat_uniques"
  THEN IF kind = "dask" THEN collect_concat(values) ELSE concat_uniques(values)
  ELSE first(values)

\* df.groupby(on): the distinct non-null keys in ascending order.
GroupKeys(df, on) ==
  Sorted({KeyOf(df, df.rows[i], on) : i \in 1..Len(df.rows)} \ {PyNone, NaN})

GroupRows(df, on, g) == SelectSeq(df.rows, LAMBDA r : KeyOf(df, r, on) = g)

GroupValues(df, on, g, c) ==
  LET rs == GroupRows(df, on, g) IN [i \in 1..Len(rs) |-> rs[i].v[c]]

\* df.groupby(on).agg({col: f for col in cols}), keyed by on.
GroupbyAgg(kind, df, on, cols, agg) ==
  LET gs == GroupKeys(df, on)
  IN  Frame(on, cols,
            [i \in 1..Len(gs) |->
               Row(gs[i], [c \in cols |-> Aggregate(kind, agg, GroupValues(df, on, gs[i], c))])])

GroupbyAggRaises(kind, df, on, cols, agg) ==
  \E g \in Range(GroupKeys(df, on)) : \E c \in cols :
     AggRaises(kind, agg, GroupValues(df, on, g, c))

\* --------------------------------------------- Database.get_annotations
NoKeys == [given |-> FALSE, vals |-> <<>>]
Keys(vals) == [given |-> TRUE, vals |-> vals]

Raise(err) == [err |-> err, missing |-> {}, df |-> EmptyFrame]
RaiseMissing(missing) == [err |-> "Exception", missing |-> missing, df |-> EmptyFrame]
Return(df) == [err |-> "ok", missing |-> {}, df |-> df]

\* columns.pop(columns.index(on)) when on is in columns
PopOn(on, columns) ==
  IF on \in Range(columns)
  THEN LET p == CHOOSE i \in 1..Len(columns) :
                  columns[i] = on /\ \A j \in 1..(i - 1) : columns[j] # on
       IN  SubSeq(columns, 1, p - 1) \o SubSeq(columns, p + 1, Len(columns))
  ELSE columns

\* Variant: the error names every requested column.
RequestedColumns(data, columns) == Range(columns)

\* set(columns) - set(self.data.columns)
MissingColumns(data, columns) == Range(columns) \ data.cols

\* df.loc[keys]: the rows of each label of keys, in the order of keys; a label
\* that is not in the index is a KeyError.
LocRaises(df, keys) ==
  \E i \in 1..Len(keys) : \A j \in 1..Len(df.rows) : df.rows[j].k # keys[i]

RECURSIVE LocRows(_, _)
LocRows(df, keys) ==
  IF keys = <<>> THEN <<>>
  ELSE SelectSeq(df.rows, LAMBDA r : r.k = keys[1]) \o LocRows(df, Tail(keys))

\* df[df[on].isin(keys)]
IsinRows(df, on, keys) == SelectSeq(df.rows, LAMBDA r : r.v[on] \in Range(keys))

\* Database.get_annotations: the error it raises (with the names the schema
\* error lists) or the table it returns.  "Exception" is the schema error of
\* the subset test; a label of keys that the index lacks is the KeyError of
\* .loc; a grouping key that is neither a column nor the index is the
\* KeyError of groupby; reset_index on an index named like a column is a
\* ValueError; a non-string that reaches '|'.join is a TypeError.
get_annotations(db, on, columns, agg, keys) ==
  LET data == db.data
      cols == PopOn(on, columns)
      select_col == cols \o <<on>>
      df == Project(data, data.cols \cap Range(select_col))
      kdf == IF ~keys.given THEN df
             ELSE IF on = df.name THEN [df EXCEPT !.rows = LocRows(df, keys.vals)]
             ELSE [df EXCEPT !.rows = IsinRows(df, on, keys.vals)]
  IN  IF ~(Range(columns) \subseteq data.cols)
        THEN RaiseMissing(MissingColumns(data, columns))
      ELSE IF keys.given /\ on = df.name /\ LocRaises(df, keys.vals)
        THEN Raise("KeyError")
      ELSE IF ~HasKey(df, on)
        THEN Raise("KeyError")
      ELSE IF on # df.name /\ df.name \in Range(cols)
        THEN Raise("ValueError")
      ELSE IF GroupbyAggRaises(db.kind, kdf, on, Range(cols), agg)
        THEN Raise("TypeError")
      ELSE Return(GroupbyAgg(db.kind, kdf, on, Range(cols), agg))

\* ------------------------------------------- difflib.get_close_matches
Min(a, b) == IF a < b THEN a ELSE b

\* SequenceMatcher.find_longest_match: the longest common block <<i, j, k>>,
\* of those the one starting earliest in a, of those the earliest in b.
Blocks(a, b) ==
  {t \in (1..Len(a)) \X (1..Len(b)) \X (1..Min(Len(a), Len(b))) :
     /\ t[1] + t[3] - 1 <= Len(a)
     /\ t[2] + t[3] - 1 <= Len(b)
     /\ SubSeq(a, t[1], t[1] + t[3] - 1) = SubSeq(b, t[2], t[2] + t[3] - 1)}

find_longest_match(a, b) ==
  CHOOSE t \in Blocks(a, b) : \A u \in Blocks(a, b) :
     \/ t[3] > u[3]
     \/ t[3] = u[3] /\ t[1] < u[1]
     \/ t[3] = u[3] /\ t[1] = u[1] /\ t[2] <= u[2]

\* The total size of SequenceMatcher.get_matching_blocks.
RECURSIVE Matches(_, _)
Matches(a, b) ==
  IF Blocks(a, b) = {} THEN 0
  ELSE LET t == find_longest_match(a, b)
       IN  t[3] + Matches(SubSeq(a, 1, t[1] - 1), SubSeq(b, 1, t[2] - 1))
                + Matches(SubSeq(a, t[1] + t[3], Len(a)), SubSeq(b, t[2] + t[3], Len(b)))

\* ratio() >= cutoff, with ratio = 2.0 * matches / (len(a) + len(b)) and the
\* default cutoff 0.6.
Close(word, x) == 10 * Matches(x, word) >= 3 * (Len(x) + Len(word))

\* (score, x) > (score, y) on the tuples heapq.nlargest compares.
Better(word, x, y) ==
  LET mx == Matches(x, word) * (Len(y) + Len(word))
      my == Matches(y, word) * (Len(x) + Len(word))
  IN  mx > my \/ (mx = my /\ StrLess(y, x))

\* get_close_matches(word, possibilities, n=1): the best match, or nothing.
get_close_matches(word, possibilities) ==
  LET good == {x \in Range(possibilities) : Close(word, x)}
  IN  IF good = {} THEN <<>>
      ELSE <<CHOOSE x \in good : \A y \in good \ {x} : Better(word, x, y)>>

\* ------------------------------------------------------------- joining
Labels(df) == [i \in 1..Len(df.rows) |-> df.rows[i].k]
Column(df, c) == [i \in 1..Len(df.rows) |-> df.rows[i].v[c]]

RECURSIVE Flatten(_)
Flatten(ss) == IF ss = <<>> THEN <<>> ELSE ss[1] \o Flatten(Tail(ss))

Suffixed(c) == c \o <<"_">>

\* The rows of a left outer merge of left with right (keyed by its index) on
\* the key `on` of left: every left row once per matching right row, or once
\* with NaN in the right columns.  A column name of both frames gets the
\* suffix "_" on the left side (suffix_left) or on the right side.
MergeRows(left, right, on, suffix_left) ==
  LET lname(c) == IF suffix_left /\ c \in right.cols THEN Suffixed(c) ELSE c
      rname(c) == IF ~suffix_left /\ c \in left.cols THEN Suffixed(c) ELSE c
      cols == {lname(c) : c \in left.cols} \cup {rname(c) : c \in right.cols}
      cell(l, r, matched, c) ==
        IF \E lc \in left.cols : lname(lc) = c
        THEN l.v[CHOOSE lc \in left.cols : lname(lc) = c]
        ELSE IF matched THEN r.v[CHOOSE rc \in right.cols : rname(rc) = c]
        ELSE NaN
      one(l) ==
        LET ms == SelectSeq(right.rows,
                            LAMBDA r : ~IsNull(KeyOf(left, l, on)) /\ r.k = KeyOf(left, l, on))
        IN  IF ms = <<>> THEN <<Row(l.k, [c \in cols |-> cell(l, l, FALSE, c)])>>
            ELSE [i \in 1..Len(ms) |-> Row(l.k, [c \in cols |-> cell(l, ms[i], TRUE, c)])]
  IN  Frame(left.name, cols, Flatten([i \in 1..Len(left.rows) |-> one(left.rows[i])]))

\* self.annotations.join(database_df, on=on, rsuffix="_")
PandasJoin(ann, ddf, on) == MergeRows(ann, ddf, on, FALSE)

\* dd.merge(self.annotations, database_df, how="left", on=on, suffixes=("_", ""))
\* The index survives only when `on` is an index level of both frames;
\* otherwise the result has a default RangeIndex.
DaskMerge(ann, ddf, on) ==
  LET m == MergeRows(ann, ddf, on, TRUE)
  IN  IF on = ann.name THEN m
      ELSE Frame(PyNone, m.cols,
                 [i \in 1..Len(m.rows) |-> Row(IntLabel(i - 1), m.rows[i].v)])

\* a suffixed name that is already a column
SuffixClash(ann, ddf) ==
  \E c \in ann.cols \cap ddf.cols : Suffixed(c) \in ann.cols \cup ddf.cols

\* new_col.strip("_")
RECURSIVE LStrip(_)
LStrip(c) == IF c # <<>> /\ c[1] = "_" THEN LStrip(Tail(c)) ELSE c
RECURSIVE RStrip(_)
RStrip(c) == IF c # <<>> /\ c[Len(c)] = "_" THEN RStrip(SubSeq(c, 1, Len(c) - 1)) ELSE c
Strip(c) == RStrip(LStrip(c))

\* [col for col in new_annotations.columns if col[-1] == "_"]
DuplicateCols(df) == {c \in df.cols : c[Len(c)] = "_"}

\* new[old_col] = new[old_col].fillna(new[new_col]); new = new.drop(columns=new_col)
FillAndDrop(df, new_col) ==
  LET old_col == Strip(new_col)
      keep == df.cols \ {new_col}
  IN  Frame(df.name, keep,
            [i \in 1..Len(df.rows) |->
               Row(df.rows[i].k,
                   [c \in keep |->
                      IF c = old_col /\ IsNull(df.rows[i].v[old_col])
                                     /\ ~IsNull(df.rows[i].v[new_col])
                      THEN df.rows[i].v[new_col]
                      ELSE df.rows[i].v[c]])])

\* The loop over duplicate_cols; a stripped name that is no column is a KeyError.
RECURSIVE Reconcile(_, _)
Reconcile(df, dups) ==
  IF dups = <<>> THEN [err |-> "ok", df |-> df]
  ELSE IF Strip(dups[1]) \notin df.cols THEN [err |-> "KeyError", df |-> df]
  ELSE Reconcile(FillAndDrop(df, dups[1]), Tail(dups))

\* ------------------------------------------ Annotatable.annotate_attributes
\* keys: the column `on` of the table, else its index when `on` names it,
\* else None.
AnnotationKeys(ann, on) ==
  IF on \in ann.cols THEN Keys(Column(ann, on))
  ELSE IF on = ann.name THEN Keys(Labels(ann))
  ELSE NoKeys

\* database.groupby(on).agg({col: concat_uniques for col in columns}) on a
\* bare DataFrame: the grouping key is not among the columns to aggregate.
FrameGroupby(database, on, columns) ==
  IF ~HasKey(database.data, on) \/ ~(Range(columns) \subseteq database.data.cols \ {on})
  THEN Raise("KeyError")
  ELSE Return(GroupbyAgg("pandas", database.data, on, Range(columns), "concat_uniques"))

\* database_df.index.map(lambda x: get_close_matches(x, annotations.index, n=1)[0])
FuzzyRaises(ann, ddf) ==
  IF \E i \in 1..Len(ann.rows) : ~IsStr(ann.rows[i].k) THEN "TypeError"
  ELSE IF \E i \in 1..Len(ddf.rows) : get_close_matches(ddf.rows[i].k, Labels(ann)) = <<>>
  THEN "IndexError"
  ELSE "ok"

FuzzyIndex(ann, ddf) ==
  [ddf EXCEPT !.rows = Norm([i \in 1..Len(ddf.rows) |->
      Row(get_close_matches(ddf.rows[i].k, Labels(ann))[1], ddf.rows[i].v)])]

\* Variant: the test for an empty source is left out.
NeverEmpty(database_df) == FALSE

\* len(database_df) == 0
IsEmpty(database_df) == Len(database_df.rows) = 0

\* Variant: the table is assigned, without its columns, before the exception.
FailedAfterAssign(ann, err) == [err |-> err, warned |-> FALSE, table |-> Project(ann, {})]

\* An exception leaves the call before self.annotations is assigned.
Failed(ann, err) == [err |-> err, warned |-> FALSE, table |-> ann]
Warned(ann) == [err |-> "ok", warned |-> TRUE, table |-> ann]
Assigned(table) == [err |-> "ok", warned |-> FALSE, table |-> table]

\* The body of annotate_attributes after the hasattr check: the error it
\* raises, whether it logged the warning, and the value of self.annotations
\* when it returns.  The test before the final assignment compares old_index
\* with the index name of self.annotations, which the call has not touched
\* yet, so its set_index never runs and new_annotations is assigned as it is.
annotate_attributes(ann, database, on, columns, agg, fuzzy_match) ==
  LET keys == AnnotationKeys(ann, on)
      got == IF database.kind = "frame" THEN FrameGroupby(database, on, columns)
             ELSE get_annotations(database, on, columns, agg, keys)
      database_df == IF fuzzy_match THEN FuzzyIndex(ann, got.df) ELSE got.df
      new_annotations == IF database.kind = "dask" THEN DaskMerge(ann, database_df, on)
                         ELSE PandasJoin(ann, database_df, on)
      merged == Reconcile(new_annotations, Sorted(DuplicateCols(new_annotations)))
  IN  IF got.err # "ok" THEN Failed(ann, got.err)
      ELSE IF IsEmpty(got.df) THEN Warned(ann)
      ELSE IF fuzzy_match /\ FuzzyRaises(ann, got.df) # "ok"
        THEN Failed(ann, FuzzyRaises(ann, got.df))
      ELSE IF ~HasKey(ann, on) THEN Failed(ann, "KeyError")
      ELSE IF SuffixClash(ann, database_df) THEN Failed(ann, "MergeError")
      ELSE IF merged.err # "ok" THEN Failed(ann, merged.err)
      ELSE Assigned(merged.df)

\* ----------------------------------------------- the other operations
\* A store of expression values keyed by id, for Database.get_expressions.
EXPR == Frame(ID, {C}, << Row(G1, (C :> 2)), Row(G1, (C :> 4)), Row(G2, (C :> 6)) >>)

\* median of a non-empty group of numbers (the data keeps it whole)
Median(values) ==
  LET n == Len(values)
      s == CHOOSE q \in [1..n -> Range(values)] :
             /\ \A i \in 1..(n - 1) : q[i] <= q[i + 1]
             /\ \A v \in Range(values) :
                  Cardinality({i \in 1..n : q[i] = v}) = Cardinality({i \in 1..n : values[i] = v})
  IN  IF n % 2 = 1 THEN s[(n + 1) \div 2] ELSE (s[n \div 2] + s[n \div 2 + 1]) \div 2

\* self.data.groupby(index).median()
get_expressions(data, index) ==
  LET gs == GroupKeys(data, index)
  IN  Frame(index, data.cols,
            [i \in 1..Len(gs) |->
               Row(gs[i], [c \in data.cols |-> Median(GroupValues(data, index, gs[i], c))])])

\* the mapping database.get_disease_assocs(index=on) hands to Index.map
DiseaseAssocs == (G1 :> <<"d">>)

\* keys.map(mapping): the mapped value, NaN for a key the mapping lacks
MapKey(mapping, k) == IF k \in DOMAIN mapping THEN mapping[k] ELSE NaN

\* self.annotations[col] = values (in place)
AssignColumn(df, col, values) ==
  Frame(df.name, df.cols \cup {col},
        [i \in 1..Len(df.rows) |->
           Row(df.rows[i].k,
               [c \in df.cols \cup {col} |-> IF c = col THEN values[i] ELSE df.rows[i].v[c]])])

\* The column reset_index puts the index in: its name, or for an index
\* without a name "index", or "level_0" when "index" is a column already.
INDEX == <<"i", "n", "d", "e", "x">>
LEVEL_0 == <<"l", "e", "v", "e", "l", "_", "0">>
IndexColumn(df) ==
  IF df.name # PyNone THEN df.name
  ELSE IF INDEX \in df.cols THEN LEVEL_0 ELSE INDEX

\* reset_index cannot insert a column the frame has already (ValueError)
ResetIndexRaises(df) == IndexColumn(df) \in df.cols

\* df.reset_index(): the index becomes a column under its name, the labels
\* become 0, 1, ...
ResetIndex(df) ==
  Frame(PyNone, df.cols \cup {IndexColumn(df)},
        [i \in 1..Len(df.rows) |->
           Row(IntLabel(i - 1),
               [c \in df.cols \cup {IndexColumn(df)} |->
                  IF c = IndexColumn(df) THEN df.rows[i].k ELSE df.rows[i].v[c]])])

\* df.set_index(new_index): the column becomes the index and leaves the columns
SetIndexColumn(df, new_index) ==
  Frame(new_index, df.cols \ {new_index},
        [i \in 1..Len(df.rows) |->
           Row(df.rows[i].v[new_index],
               [c \in df.cols \ {new_index} |-> df.rows[i].v[c]])])

\* column.fillna(index.to_series()): a null cell of the column takes the
\* label of its row
Backfill(df, new_index) ==
  [df EXCEPT !.rows = Norm([i \in 1..Len(df.rows) |->
      Row(df.rows[i].k,
          [c \in df.cols |->
             IF c = new_index /\ IsNull(df.rows[i].v[c]) THEN df.rows[i].k
             ELSE df.rows[i].v[c]])])]

\* The body of set_index.  fillna(..., inplace=True) is called on the Series
\* self.annotations[new_index], a chained assignment: whether it writes
\* through to the table depends on the pandas build (it does without
\* copy-on-write, it does not with it), so `written` is either.  A write that
\* happened stays when reset_index raises afterwards.
set_index(ann, new_index, written) ==
  LET filled == IF written THEN Backfill(ann, new_index) ELSE ann
  IN  IF new_index \notin ann.cols THEN [err |-> "KeyError", table |-> ann]
      ELSE IF ResetIndexRaises(filled) THEN [err |-> "ValueError", table |-> filled]
      ELSE [err |-> "ok", table |-> SetIndexColumn(ResetIndex(filled), new_index)]

\* pd.Series(values, index=index).to_dict(): a later entry replaces an
\* earlier one with the same key.
ToDict(index, values) ==
  [k \in Range(index) |->
     values[CHOOSE i \in 1..Len(index) :
              index[i] = k /\ \A j \in (i + 1)..Len(index) : index[j] # k]]

\* Variant: the rows whose to_index value is null are kept.
get_rename_dict_with_nulls(ann, from_index, to_index) ==
  LET dataframe == IF ann.name \in {from_index, to_index} THEN ResetIndex(ann) ELSE ann
  IN  ToDict(Column(dataframe, from_index), Column(dataframe, to_index))

\* get_rename_dict, for from_index and to_index that name the index or a column
get_rename_dict(ann, from_index, to_index) ==
  LET dataframe == IF ann.name \in {from_index, to_index} THEN ResetIndex(ann) ELSE ann
      notnull == [dataframe EXCEPT !.rows =
                    SelectSeq(dataframe.rows, LAMBDA r : ~IsNull(r.v[to_index]))]
  IN  ToDict(Column(notnull, from_index), Column(notnull, to_index))

\* ------------------------------------------------------ state machine
VARIABLES
  attrs,                  \* the attributes set on the object (hasattr)
  annotations,            \* self.annotations, the Annotation Table
  annotation_expressions, \* self.annotation_expressions
  call,                   \* the last call and its arguments
  outcome,                \* what the last call raised, logged and returned
  before                  \* self.annotations when the last call began

vars == <<attrs, annotations, annotation_expressions, call, outcome, before>>

\* bounds of the inputs
MaxEntities == 2
MaxRows == 3

EntityKeys == {G1, G2, G3}
OnChoices == {ID, NM}
ColumnChoices == {<<C>>, <<NM, C>>, <<C, Z>>}
AggChoices == {"concat_uniques", "first"}

\* entity lists of pairwise distinct keys
EntityLists ==
  UNION {{q \in [1..n -> EntityKeys] : \A i, j \in 1..n : i # j => q[i] # q[j]} :
           n \in 0..MaxEntities}

\* keys arguments: entity lists, repeated labels, labels the stores lack
KeyChoices == {NoKeys} \cup {Keys(q) : q \in EntityLists}
               \cup {Keys(<<G1, G1>>), Keys(<<X>>), Keys(<<NA, X>>), Keys(<<X, G3>>)}

\* What a call raised and logged; table, mapping and missing hold what it
\* returned or named, and are empty when it returned nothing.  The errors
\* are named by their Python class, except the Exception "... must run
\* initialize_annotations() first", which is "PreconditionError".
Outcome(err, warned) ==
  [err |-> err, warned |-> warned, table |-> EmptyFrame, mapping |-> <<>>, missing |-> {}]

Init ==
  /\ attrs = {}
  /\ annotations = EmptyFrame
  /\ annotation_expressions = EmptyFrame
  /\ call = [op |-> "new"]
  /\ outcome = Outcome("ok", FALSE)
  /\ before = EmptyFrame

\* initialize_annotations(index), index an Index named "id"
initialize_annotations(index) ==
  /\ attrs' = attrs \cup {"annotations"}
  /\ annotations' = Frame(ID, {}, [i \in 1..Len(index) |-> Row(index[i], <<>>)])
  /\ call' = [op |-> "initialize_annotations", index |-> index]
  /\ outcome' = Outcome("ok", FALSE)
  /\ before' = annotations
  /\ UNCHANGED annotation_expressions

\* Annotatable.get_annotations()
GetAnnotations ==
  /\ call' = [op |-> "get_annotations"]
  /\ outcome' = IF "annotations" \in attrs THEN [Outcome("ok", FALSE) EXCEPT !.table = annotations]
                ELSE Outcome("PreconditionError", FALSE)
  /\ before' = annotations
  /\ UNCHANGED <<attrs, annotations, annotation_expressions>>

\* annotate_attributes(database, on, columns, agg, fuzzy_match)
AnnotateAttributes(database, on, columns, agg, fuzzy_match) ==
  /\ call' = [op |-> "annotate_attributes", database |-> database, on |-> on,
              columns |-> columns, agg |-> agg, fuzzy_match |-> fuzzy_match]
  /\ before' = annotations
  /\ IF "annotations" \notin attrs
     THEN /\ outcome' = Outcome("PreconditionError", FALSE)
          /\ UNCHANGED annotations
     ELSE \E r \in {annotate_attributes(annotations, database, on, columns, agg, fuzzy_match)} :
            /\ Len(r.table.rows) <= MaxRows
            /\ outcome' = Outcome(r.err, r.warned)
            /\ annotations' = r.table
  /\ UNCHANGED <<attrs, annotation_expressions>>

\* annotate_expressions(database, index)
AnnotateExpressions(index) ==
  /\ call' = [op |-> "annotate_expressions", index |-> index]
  /\ before' = annotations
  /\ IF "annotations" \notin attrs
     THEN /\ outcome' = Outcome("AttributeError", FALSE)
          /\ UNCHANGED <<attrs, annotation_expressions>>
     ELSE /\ attrs' = attrs \cup {"annotation_expressions"}
          /\ IF annotations.name = index
             THEN /\ outcome' = Outcome("ok", FALSE)
                  /\ annotation_expressions' =
                       PandasJoin(Frame(annotations.name, {}, [i \in 1..Len(annotations.rows) |->
                                          Row(annotations.rows[i].k, <<>>)]),
                                  get_expressions(EXPR, index), index)
             ELSE /\ outcome' = Outcome("Exception", FALSE)
                  /\ annotation_expressions' =
                       Frame(annotations.name, {}, [i \in 1..Len(annotations.rows) |->
                               Row(annotations.rows[i].k, <<>>)])
  /\ UNCHANGED annotations

\* annotate_diseases(database, on)
AnnotateDiseases(on) ==
  /\ call' = [op |-> "annotate_diseases", on |-> on]
  /\ before' = annotations
  /\ IF "annotations" \notin attrs
     THEN /\ outcome' = Outcome("AttributeError", FALSE)
          /\ UNCHANGED annotations
     ELSE IF ~HasKey(annotations, on)
     THEN /\ outcome' = Outcome("KeyError", FALSE)
          /\ UNCHANGED annotations
     ELSE /\ outcome' = Outcome("ok", FALSE)
          /\ annotations' =
               AssignColumn(annotations, DISEASE_ASSOCIATIONS_COL,
                            [i \in 1..Len(annotations.rows) |->
                               MapKey(DiseaseAssocs, KeyOf(annotations, annotations.rows[i], on))])
  /\ UNCHANGED <<attrs, annotation_expressions>>

\* get_rename_dict(from_index, to_index), for names the table has
GetRenameDict(from_index, to_index) ==
  /\ "annotations" \in attrs
  /\ HasKey(annotations, from_index)
  /\ HasKey(annotations, to_index)
  /\ call' = [op |-> "get_rename_dict", from_index |-> from_index, to_index |-> to_index]
  /\ before' = annotations
  /\ outcome' = [Outcome("ok", FALSE) EXCEPT
                    !.mapping = get_rename_dict(annotations, from_index, to_index)]
  /\ UNCHANGED <<attrs, annotations, annotation_expressions>>

\* set_index(new_index)
SetIndex(new_index, written) ==
  /\ call' = [op |-> "set_index", new_index |-> new_index]
  /\ before' = annotations
  /\ IF "annotations" \notin attrs
     THEN /\ outcome' = Outcome("AttributeError", FALSE)
          /\ UNCHANGED annotations
     ELSE \E r \in {set_index(annotations, new_index, written)} :
            /\ outcome' = Outcome(r.err, FALSE)
            /\ annotations' = r.table
  /\ UNCHANGED <<attrs, annotation_expressions>>

\* Database.get_annotations(on, columns, agg, keys), called on a store
DatabaseGetAnnotations(database, on, columns, agg, keys) ==
  /\ call' = [op |-> "Database.get_annotations", database |-> database, on |-> on,
              columns |-> columns, agg |-> agg, keys |-> keys]
  /\ before' = annotations
  /\ \E r \in {get_annotations(database, on, columns, agg, keys)} :
       outcome' = [Outcome(r.err, FALSE) EXCEPT !.table = r.df, !.missing = r.missing]
  /\ UNCHANGED <<attrs, annotations, annotation_expressions>>

Next ==
  \/ \E index \in EntityLists : initialize_annotations(index)
  \/ GetAnnotations
  \/ \E database \in Sources, on \in OnChoices, columns \in ColumnChoices,
        fuzzy_match \in BOOLEAN :
       AnnotateAttributes(database, on, columns, "concat_uniques", fuzzy_match)
  \/ \E on \in OnChoices : AnnotateDiseases(on)
  \/ \E from_index \in OnChoices \cup {C}, to_index \in OnChoices \cup {C} :
       GetRenameDict(from_index, to_index)

\* The operations of an annotatable entity on its Annotation Table.
Spec == Init /\ [][Next]_vars

\* annotate_expressions writes annotation_expressions alone and nothing else
\* reads it, so it is explored with the joins in a session of its own, one
\* initialization per session, the joins asking for column c with or without
\* a column the sources lack.
NextExpressions ==
  \/ \E index \in EntityLists : "annotations" \notin attrs /\ initialize_annotations(index)
  \/ \E database \in Sources, on \in OnChoices, columns \in {<<C>>, <<C, Z>>},
        fuzzy_match \in BOOLEAN :
       AnnotateAttributes(database, on, columns, "concat_uniques", fuzzy_match)
  \/ \E on \in OnChoices : AnnotateDiseases(on)
  \/ \E index \in OnChoices : AnnotateExpressions(index)

SpecExpressions == Init /\ [][NextExpressions]_vars

\* Re-keying is explored with the joins and annotate_diseases in a session of
\* its own, one initialization per session, against the store with a shared
\* name, the dask store and the bare DataFrame.
RekeySources == {DB4, DB2, DF3}
RekeyColumns == {<<C>>, <<NM, C>>}

NextRekey ==
  \/ \E index \in EntityLists : "annotations" \notin attrs /\ initialize_annotations(index)
  \/ \E database \in RekeySources, on \in OnChoices, columns \in RekeyColumns,
        fuzzy_match \in BOOLEAN :
       AnnotateAttributes(database, on, columns, "concat_uniques", fuzzy_match)
  \/ \E on \in OnChoices : AnnotateDiseases(on)
  \/ \E new_index \in OnChoices \cup {C}, written \in BOOLEAN :
       SetIndex(new_index, written)

SpecRekey == Init /\ [][NextRekey]_vars

\* Database.get_annotations is a function of the store and its arguments.
NextStore ==
  \E database \in Databases, on \in OnChoices \cup {Z}, columns \in ColumnChoices \cup {<<ID, C>>},
     agg \in AggChoices, keys \in KeyChoices :
    DatabaseGetAnnotations(database, on, columns, agg, keys)

SpecStore == Init /\ [][NextStore]_vars

\* ---------------------------------------------------------------- claims
Initialized == "annotations" \in attrs

\* the last call was a join that ran on an initialized table
Joined == call.op = "annotate_attributes" /\ outcome.err # "PreconditionError"
Completed == Joined /\ outcome.err = "ok"

\* C1: a join that completes, with `on` the row-key or an existing column,
\* leaves the number of rows, the set of row-key values and the row-key name
\* as they were.
C1_RowKeyPreserved ==
  (Completed /\ HasKey(before, call.on)) =>
    /\ Len(annotations.rows) = Len(before.rows)
    /\ Range(Labels(annotations)) = Range(Labels(before))
    /\ annotations.name = before.name

\* The aggregated source table the last join merged: what the store returned
\* for the table as it was, after the fuzzy remap of its labels.
SuppliedTable ==
  LET keys == AnnotationKeys(before, call.on)
      got == IF call.database.kind = "frame"
             THEN FrameGroupby(call.database, call.on, call.columns)
             ELSE get_annotations(call.database, call.on, call.columns, call.agg, keys)
  IN  IF call.fuzzy_match THEN FuzzyIndex(before, got.df) ELSE got.df

\* the values the source supplies in column c for the key k
SuppliedValues(k, c) ==
  {SuppliedTable.rows[j].v[c] :
     j \in {j \in 1..Len(SuppliedTable.rows) : SuppliedTable.rows[j].k = k}}

\* C2: when a join supplies a column the table already has, every row keeps
\* a non-null value, gets the source's value for its key in place of a null
\* one (a null when the source has no row for the key), and no suffixed copy
\* of the column is left.
C2_FillNotOverwrite ==
  (Completed /\ ~outcome.warned /\ Len(annotations.rows) = Len(before.rows)) =>
    \A c \in SuppliedTable.cols \cap before.cols :
      /\ Suffixed(c) \notin annotations.cols
      /\ c \in annotations.cols
      /\ \A i \in 1..Len(before.rows) :
           LET old == before.rows[i].v[c]
               new == annotations.rows[i].v[c]
               src == SuppliedValues(KeyOf(before, before.rows[i], call.on), c)
           IN  /\ ~IsNull(old) => new = old
               /\ IsNull(old) => IF src = {} THEN IsNull(new) ELSE new \in src

\* the store of the last join answers with a table of zero rows
EmptySource ==
  LET keys == AnnotationKeys(before, call.on)
      got == IF call.database.kind = "frame"
             THEN FrameGroupby(call.database, call.on, call.columns)
             ELSE get_annotations(call.database, call.on, call.columns, call.agg, keys)
  IN  got.err = "ok" /\ Len(got.df.rows) = 0

\* C3: a join whose aggregated source has zero rows returns without error,
\* logs the warning and leaves the table as it was.
C3_EmptySourceNoOp ==
  (Joined /\ EmptySource) =>
    /\ outcome.err = "ok"
    /\ outcome.warned
    /\ annotations = before

\* a join on a table with rows and columns met an empty source
C3_Witness ==
  /\ Joined /\ EmptySource /\ outcome.warned
  /\ Len(annotations.rows) > 0 /\ annotations.cols # {}

\* C4: a join or a read before initialize_annotations fails with the
\* precondition error and creates no table; initialize_annotations makes the
\* table with the entity keys as row-keys and no columns.
C4_InitializeFirst ==
  /\ (call.op \in {"annotate_attributes", "annotate_expressions", "annotate_diseases",
                   "get_annotations"} /\ ~Initialized)
       => outcome.err = "PreconditionError"
  /\ call.op = "initialize_annotations"
       => Initialized /\ Labels(annotations) = call.index /\ annotations.cols = {}

\* the last call was Database.get_annotations on a store
StoreCall == call.op = "Database.get_annotations"

\* C5: Database.get_annotations raises the schema error exactly when columns
\* has a name that is no column of the store, and the error names exactly
\* the requested names the store lacks.
C5_SchemaError ==
  StoreCall =>
    LET requested == Range(call.columns)
        have == call.database.data.cols
    IN  /\ (outcome.err = "Exception") <=> ~(requested \subseteq have)
        /\ outcome.err = "Exception" => outcome.missing = requested \ have

\* one of two requested columns is missing and the error names it alone
C5_Witness ==
  /\ StoreCall /\ outcome.err = "Exception"
  /\ call.columns = <<C, Z>> /\ outcome.missing = {Z}

\* the last call was get_rename_dict
RenameCall == call.op = "get_rename_dict"

\* the value row i has under the name col, the row-key included
Value(df, i, col) == KeyOf(df, df.rows[i], col)

\* the rows whose `to` value is not null
ToRows == {i \in 1..Len(annotations.rows) : ~IsNull(Value(annotations, i, call.to_index))}

\* C6, as the specification words it: the keys of the mapping are the
\* non-null `to` values, each mapped to the `from` value of its row, and the
\* table is not modified.
C6_LookupToFrom ==
  RenameCall =>
    /\ DOMAIN outcome.mapping = {Value(annotations, i, call.to_index) : i \in ToRows}
    /\ \A k \in DOMAIN outcome.mapping :
         \E i \in ToRows : /\ Value(annotations, i, call.to_index) = k
                           /\ Value(annotations, i, call.from_index) = outcome.mapping[k]
    /\ annotations = before

\* C6, as the code has it: the keys of the mapping are the `from` values of
\* the rows whose `to` value is not null, each mapped to the `to` value of
\* the last such row, and the table is not modified.
C6_LookupFromTo ==
  RenameCall =>
    /\ DOMAIN outcome.mapping = {Value(annotations, i, call.from_index) : i \in ToRows}
    /\ \A k \in DOMAIN outcome.mapping :
         \E i \in ToRows :
            /\ Value(annotations, i, call.from_index) = k
            /\ Value(annotations, i, call.to_index) = outcome.mapping[k]
            /\ \A j \in ToRows : Value(annotations, j, call.from_index) = k => j <= i
    /\ annotations = before

\* a lookup from the row-key to a column with a null in one row and a value
\* in another
C6_Witness ==
  /\ RenameCall /\ call.from_index = annotations.name /\ call.to_index \in annotations.cols
  /\ ToRows # {} /\ ToRows # 1..Len(annotations.rows)
  /\ outcome.mapping # <<>>

\* C7: after a join that completed, the same join again leaves the table
\* with the columns and the values it has.
C7_JoinTwice ==
  Completed =>
    annotate_attributes(annotations, call.database, call.on, call.columns, call.agg,
                        call.fuzzy_match).table = annotations

\* the parts of a pipe-delimited string
Parts(cell) == Range(StrSplit(cell)) \ {<<>>}

\* the values of column c in the rows of the store whose `on` value is g
StoreValues(g, c) ==
  LET data == call.database.data
  IN  {Value(data, i, c) : i \in {i \in 1..Len(data.rows) : Value(data, i, call.on) = g}}

\* C8: with agg = "concat_uniques" and no keys, Database.get_annotations
\* returns one row per distinct value of `on`, and every cell is a
\* pipe-delimited string whose parts are the distinct values of the column in
\* the group without the nulls and without the string "None".
C8_ConcatUniques ==
  LET data == call.database.data
      groups == {Value(data, i, call.on) : i \in 1..Len(data.rows)} \ {PyNone, NaN}
  IN  (/\ StoreCall /\ call.agg = "concat_uniques" /\ ~call.keys.given
       /\ HasKey(data, call.on) /\ Range(call.columns) \subseteq data.cols)
      =>
        /\ outcome.err = "ok"
        /\ Len(outcome.table.rows) = Cardinality(groups)
        /\ Range(Labels(outcome.table)) = groups
        /\ outcome.table.cols = Range(call.columns) \ {call.on}
        /\ \A i \in 1..Len(outcome.table.rows) : \A c \in outcome.table.cols :
             /\ IsStr(outcome.table.rows[i].v[c])
             /\ Parts(outcome.table.rows[i].v[c]) =
                  {x \in StoreValues(outcome.table.rows[i].k, c) : ~IsNull(x) /\ x # NoneStr}

\* C9: a call that fails leaves the table with the row-keys, the columns and
\* the values it had; a call that fails on an entity without a table creates
\* none.
C9_FailedCallAborts ==
  [][outcome'.err # "ok" =>
       /\ annotations' = annotations
       /\ ("annotations" \in attrs') = ("annotations" \in attrs)]_vars

\* a join asked for a column the source lacks, on a table that has rows and
\* a column already
C9_Witness ==
  /\ Joined /\ outcome.err = "Exception"
  /\ annotations.cols # {} /\ annotations.rows # <<>>

\* C10: with keys, Database.get_annotations returns the groups of its result
\* without keys whose `on` value is in keys, with the same values.
C10_KeysRestriction ==
  (StoreCall /\ call.keys.given) =>
    LET full == get_annotations(call.database, call.on, call.columns, call.agg, NoKeys)
    IN  full.err = "ok" =>
          /\ outcome.err = "ok"
          /\ outcome.table =
               [full.df EXCEPT !.rows =
                  SelectSeq(full.df.rows, LAMBDA r : r.k \in Range(call.keys.vals))]

\* the row-keys of the table are pairwise distinct
UniqueLabels(df) ==
  \A i, j \in 1..Len(df.rows) : i # j => df.rows[i].k # df.rows[j].k

\* the last call was a re-key that completed
Rekeyed == call.op = "set_index" /\ outcome.err = "ok"

\* C11: from initialize_annotations with pairwise distinct entity keys, after
\* any sequence of joins, annotate_diseases and re-keys the row-keys of the
\* table are pairwise distinct; a re-key that completes keeps every row, and
\* the new row-key of a row is its value of new_index, or its old row-key
\* where that value was null.
C11_RowKeyUnique ==
  /\ Initialized => UniqueLabels(annotations)
  /\ Rekeyed =>
       /\ Len(annotations.rows) = Len(before.rows)
       /\ \A i \in 1..Len(before.rows) :
            annotations.rows[i].k =
              IF IsNull(before.rows[i].v[call.new_index]) THEN before.rows[i].k
              ELSE before.rows[i].v[call.new_index]

====
